---- MODULE Spec2Model ----
(***************************************************************************)
(* Model of the adaptive recommendation core of git-fit:                   *)
(* src/app/enhanced_ai_engine.py (EnhancedAIEngine).                       *)
(*                                                                         *)
(* Numbers.  Python floats are modelled in fixed point.                    *)
(*   - rates, context factors and confidences are thousandths (Q);         *)
(*   - suggested values and planned values (reps, kg, seconds, sets) are   *)
(*     in units of 1/VScale, the least denominator at which x0.9, x0.8,    *)
(*     x0.95, x1.025 and x1.1 of a whole number are exact.                 *)
(* Python values of unknown type (entries of a dict that came from JSON or *)
(* from the caller) are tagged records, so that the operations that raise  *)
(* TypeError in Python raise in the model.                                 *)
(***************************************************************************)
EXTENDS Integers, Sequences, FiniteSets, TLC

\* ------------------------------------------------------------------------
\* Fixed point
\* ------------------------------------------------------------------------
Q == 10 * 100

VScale == 20 * 40

Max(a, b) == IF a >= b THEN a ELSE b

Min(a, b) == IF a <= b THEN a ELSE b

Abs(a) == IF a >= 0 THEN a ELSE -a

\* np.clip(x, lo, hi)
Clip(x, lo, hi) == Max(lo, Min(x, hi))

\* int(x) of a value in 1/VScale units: truncation toward zero
PyInt(n) == IF n >= 0 THEN (n \div VScale) * VScale ELSE -(((-n) \div VScale) * VScale)

\* x * (num/den) for a decimal literal num/den
MulFrac(n, num, den) == (n * num) \div den

\* ------------------------------------------------------------------------
\* Python values
\* ------------------------------------------------------------------------
Absent == [k |-> "absent", n |-> 0, l |-> <<>>, s |-> ""]

NoneV == [k |-> "none", n |-> 0, l |-> <<>>, s |-> ""]

Num(n) == [k |-> "num", n |-> n, l |-> <<>>, s |-> ""]

Str(s) == [k |-> "str", n |-> 0, l |-> <<>>, s |-> s]

List(l) == [k |-> "list", n |-> 0, l |-> l, s |-> ""]

\* float('nan'): json.loads reads the literal NaN as this float
NaN == [k |-> "nan", n |-> 0, l |-> <<>>, s |-> ""]

\* isinstance(v, (int, float))
IsNumber(v) == v.k \in {"num", "nan"}

\* v * (num/den): nan stays nan
Times(v, num, den) == IF v.k = "nan" THEN NaN ELSE Num((v.n * num) \div den)

\* v < n and v > n for a number v: every comparison with nan is False
Less(v, n) == v.k = "num" /\ v.n < n

Greater(v, n) == v.k = "num" /\ v.n > n

\* isinstance(v, (list, tuple))
IsList(v) == v.k = "list"

\* dict.get(key, default)
Get(v, default) == IF v.k = "absent" THEN default ELSE v

\* dict.get(key)
GetOrNone(v) == Get(v, NoneV)

\* whole number w as a value
Whole(w) == Num(w * VScale)

\* ------------------------------------------------------------------------
\* Program constants (EnhancedAIEngine.safety_constraints, in thousandths
\* where they are fractions)
\* ------------------------------------------------------------------------
min_rep_percentage == 800

max_weight_increase == 100

min_rest_time == 30

\* ------------------------------------------------------------------------
\* UserPreferenceProfile
\* ------------------------------------------------------------------------
DefaultProfile ==
    [ preferred_intensity |-> 700,
      volume_tolerance |-> 800,
      progression_rate |-> 500,
      form_focus |-> 800,
      time_constraints |-> 60,
      acceptance_rate |-> 500,
      modification_frequency |-> 300,
      skip_rate |-> 100,
      common_rejection_reasons |-> <<>>,
      workout_confidence |-> 500,
      exercise_confidence |-> 500,
      intensity_confidence |-> 500,
      total_interactions |-> 0,
      learning_rate |-> 100 ]

\* get_user_profile: the store after the call (the profile is user_profiles[user_id])
\* variant: the user's profile is set to the defaults on every call
get_user_profile_Reset(profiles, user_id) ==
    [u \in DOMAIN profiles \cup {user_id} |->
        IF u = user_id THEN DefaultProfile ELSE profiles[u]]

get_user_profile(profiles, user_id) ==
    IF user_id \in DOMAIN profiles
    THEN profiles
    ELSE profiles @@ (user_id :> DefaultProfile)

\* _exponential_moving_average
exponential_moving_average(current, new_value, learning_rate) ==
    (current * (Q - learning_rate) + new_value * learning_rate) \div Q

\* ------------------------------------------------------------------------
\* WorkoutContext: optional fields are <<>> (None) or <<x>>
\* ------------------------------------------------------------------------
IsNone(o) == o = <<>>

Some(x) == <<x>>

Val(o) == o[1]

CrowdingImpact(g) ==
    IF g = Some("low") THEN 0
    ELSE IF g = Some("medium") THEN 300
    ELSE IF g = Some("high") THEN 700
    ELSE 0

CountFalse(seq) == Cardinality({i \in 1..Len(seq) : ~seq[i]})

\* _analyze_context
analyze_context(context, profile) ==
    [ energy_alignment |->
        IF IsNone(context.user_energy) THEN Q
        ELSE Max(0, Q - (Abs(Val(context.user_energy) - 7) * Q) \div 7),
      time_pressure |->
        IF ~IsNone(context.available_time) /\ profile.time_constraints > 0
           /\ Val(context.available_time) * 10 < 8 * profile.time_constraints
        THEN 800 - (Val(context.available_time) * Q) \div profile.time_constraints
        ELSE 0,
      equipment_constraints |->
        IF ~IsNone(context.equipment_availability)
           /\ Len(Val(context.equipment_availability)) > 0
        THEN (CountFalse(Val(context.equipment_availability)) * Q)
                \div Len(Val(context.equipment_availability))
        ELSE 0,
      motivation_factor |->
        IF IsNone(context.user_motivation) THEN Q
        ELSE (Val(context.user_motivation) * Q) \div 10,
      crowding_impact |-> CrowdingImpact(context.gym_crowding) ]

\* ------------------------------------------------------------------------
\* Suggestions: the dicts handed from stage to stage.  exc # "" stands for
\* the exception that left the stage instead of a dict.
\* ------------------------------------------------------------------------
Dict(type, suggested_value, reasoning, risk_assessment, confidence_score) ==
    [ exc |-> "",
      type |-> type,
      suggested_value |-> suggested_value,
      reasoning |-> reasoning,
      reasoning_is_list |-> FALSE,
      risk_assessment |-> risk_assessment,
      confidence_score |-> confidence_score ]

Raised(e) ==
    [ exc |-> e,
      type |-> "",
      suggested_value |-> Absent,
      reasoning |-> <<>>,
      reasoning_is_list |-> FALSE,
      risk_assessment |-> Absent,
      confidence_score |-> Absent ]

\* reasoning texts are sequences of the fragments concatenated
R_struggle == "Reduced reps by 10% to accommodate current difficulty level."

R_progress == "Set completed successfully with high progression preference. Small weight increase recommended."

R_time == "Reduced sets due to time constraints."

R_maintain == "Maintaining current program parameters based on user profile and context."

R_parse == "Using fallback due to parsing error"

R_form == " (Adjusted for high form focus preference)"

R_volume == "Maintaining volume due to low volume tolerance preference"

R_energy == "Conservative approach due to current energy/motivation levels"

R_history == " (Conservative due to preference history)"

R_safety(constraints_applied) == <<" (Safety constraints applied: ">> \o constraints_applied \o <<")">>

\* max(1, int(rep * num/den))
ScaleRep(rep, num, den) == Max(VScale, PyInt(MulFrac(rep, num, den)))

\* [max(1, int(rep * num/den)) for rep in reps]
RECURSIVE ScaleReps(_, _, _)
ScaleReps(reps, num, den) ==
    IF reps = <<>> THEN <<>>
    ELSE <<ScaleRep(Head(reps), num, den)>> \o ScaleReps(Tail(reps), num, den)

\* _generate_fallback_recommendation
generate_fallback_recommendation(exercise_data, context, profile, event_type) ==
    IF event_type = "struggle_set"
    THEN LET current_reps == Get(exercise_data.planned_reps, Whole(10))
         IN  IF IsList(current_reps)
             THEN Dict("rep_reduction", List(ScaleReps(current_reps.l, 9, 10)),
                       <<R_struggle>>, Str("Low"), Num(800))
             ELSE IF current_reps.k = "nan"
             THEN Raised("ValueError")
             ELSE IF IsNumber(current_reps)
             THEN Dict("rep_reduction",
                       Num(ScaleRep(current_reps.n, 9, 10)),
                       <<R_struggle>>, Str("Low"), Num(800))
             ELSE Raised("TypeError")
    ELSE IF event_type = "complete_set" /\ profile.progression_rate > 700
    THEN LET planned_weight == Get(exercise_data.planned_weight, Whole(0))
         IN  IF IsNumber(planned_weight)
             THEN Dict("weight_increase", Times(planned_weight, 1025, 1000),
                       <<R_progress>>, Str("Low"), Num(700))
             ELSE Raised("TypeError")
    ELSE IF ~IsNone(context.available_time) /\ Val(context.available_time) # 0
            /\ Val(context.available_time) * 10 < profile.time_constraints * 8
    THEN LET planned_sets == Get(exercise_data.planned_sets, Whole(3))
         IN  IF IsNumber(planned_sets)
             THEN Dict("volume_reduction",
                       IF planned_sets.k = "nan" THEN NaN ELSE Num(planned_sets.n - VScale),
                       <<R_time>>, Str("Low"), Num(900))
             ELSE Raised("TypeError")
    ELSE Dict("maintain_program", GetOrNone(exercise_data.planned_value),
              <<R_maintain>>, Str("Very Low"), Num(600))

\* ------------------------------------------------------------------------
\* The model's response text, as tokens: "{" and "}" are braces, "j" is the
\* members of a JSON object, "p" is prose.  obj is the dict that the members
\* "j" denote.
\* ------------------------------------------------------------------------
\* str.find: index of the first occurrence, 0-based, -1 when absent
Find(text, ch) ==
    IF \E i \in 1..Len(text) : text[i] = ch
    THEN (CHOOSE i \in 1..Len(text) : text[i] = ch /\ \A j \in 1..(i-1) : text[j] # ch) - 1
    ELSE -1

\* str.rfind
RFind(text, ch) ==
    IF \E i \in 1..Len(text) : text[i] = ch
    THEN (CHOOSE i \in 1..Len(text) : text[i] = ch /\ \A j \in (i+1)..Len(text) : text[j] # ch) - 1
    ELSE -1

\* text[a:b] for 0 <= a <= b <= len
Slice(text, a, b) == SubSeq(text, a + 1, b)

\* json.loads succeeds on exactly one object: braces around optional members
JsonLoads(str) == str = <<"{", "j", "}">> \/ str = <<"{", "}">>

\* the dict json.loads returns
JsonObject(str, obj) ==
    IF str = <<"{", "j", "}">> THEN obj
    ELSE [type |-> Absent, suggested_value |-> Absent, reasoning |-> Absent,
          risk_assessment |-> Absent, confidence_score |-> Absent]

ParseErrorSuggestion(exercise_data) ==
    Dict("maintain_program", GetOrNone(exercise_data.planned_value),
         <<R_parse>>, Str("Low"), Num(300))

\* response_text[json_start:json_end] of lines 422-428, <<>> when the guard
\* of line 425 raises
JsonStr(response_text) ==
    LET json_start == Find(response_text, "{")
        json_end == RFind(response_text, "}") + 1
    IN  IF json_start = -1 \/ json_end <= json_start
        THEN <<>>
        ELSE Slice(response_text, json_start, json_end)

\* lines 420-429 raise: the except branch of line 439 is taken
ParseFails(response_text) == ~JsonLoads(JsonStr(response_text))

\* lines 432-435: a required field the object lacks gets a placeholder
FillRequired(suggestion) ==
    [ Dict(IF suggestion.type.k = "absent" THEN "AI generated type" ELSE suggestion.type.s,
           Get(suggestion.suggested_value, Str("AI generated suggested_value")),
           IF suggestion.reasoning.k = "absent"
           THEN <<"AI generated reasoning">>
           ELSE IF IsList(suggestion.reasoning) THEN <<>>
           ELSE <<suggestion.reasoning.s>>,
           suggestion.risk_assessment,
           suggestion.confidence_score)
      EXCEPT !.reasoning_is_list = IsList(suggestion.reasoning) ]

\* _parse_ai_response
parse_ai_response(response_text, obj, exercise_data) ==
    IF ParseFails(response_text)
    THEN ParseErrorSuggestion(exercise_data)
    ELSE FillRequired(JsonObject(JsonStr(response_text), obj))

\* _generate_ai_suggestion, given what the model call did:
\* outcome.kind = "raise" (tokenizer or model raised) or "text"
generate_ai_suggestion(outcome, exercise_data, context, profile, event_type) ==
    IF outcome.kind = "raise"
    THEN generate_fallback_recommendation(exercise_data, context, profile, event_type)
    ELSE parse_ai_response(outcome.text, outcome.obj, exercise_data)

\* ------------------------------------------------------------------------
\* PersonalizationAdjuster
\* ------------------------------------------------------------------------
\* _personalize_recommendation
personalize_recommendation(base_suggestion, profile, context_analysis) ==
    LET s1 == IF profile.form_focus > 800
                  /\ base_suggestion.type \in {"weight_increase", "rep_increase"}
              THEN [base_suggestion EXCEPT
                        !.suggested_value = IF IsNumber(@) THEN Times(@, 95, 100) ELSE @,
                        !.reasoning = @ \o <<R_form>>]
              ELSE base_suggestion
        s2 == IF profile.volume_tolerance < 400
                  /\ s1.type \in {"volume_increase", "set_increase"}
              THEN [s1 EXCEPT !.type = "maintain_program", !.reasoning = <<R_volume>>,
                              !.reasoning_is_list = FALSE]
              ELSE s1
        s3 == IF (context_analysis.energy_alignment < 500
                     \/ context_analysis.motivation_factor < 500)
                  /\ s2.type \in {"weight_increase", "rep_increase", "intensity_increase"}
              THEN [s2 EXCEPT !.type = "maintain_program", !.reasoning = <<R_energy>>,
                              !.reasoning_is_list = FALSE]
              ELSE s2
        score == Get(s3.confidence_score, Num(500))
    IN  IF base_suggestion.exc # "" THEN base_suggestion
        ELSE IF profile.acceptance_rate < 300
        THEN IF IsNumber(score)
             THEN [s3 EXCEPT !.confidence_score = Times(score, 8, 10),
                             !.reasoning = @ \o <<R_history>>]
             ELSE Raised("TypeError")
        ELSE s3

\* ------------------------------------------------------------------------
\* SafetyConstraintEnforcer
\* ------------------------------------------------------------------------
\* max(1, int(original_reps * min_rep_percentage))
MinReps(original_reps) == ScaleRep(original_reps, min_rep_percentage, Q)

\* original_weight * (1 + max_weight_increase)
MaxWeight(original_weight) == MulFrac(original_weight, Q + max_weight_increase, Q)

\* min_rest_time, as a suggested value
MinRest == min_rest_time * VScale

\* [max(suggested, min_rep) for suggested, min_rep in zip(suggested_reps, min_reps)]
RECURSIVE ZipMax(_, _)
ZipMax(suggested_reps, original_reps) ==
    IF suggested_reps = <<>> \/ original_reps = <<>> THEN <<>>
    ELSE <<Max(Head(suggested_reps), MinReps(Head(original_reps)))>>
            \o ZipMax(Tail(suggested_reps), Tail(original_reps))

\* the rep reduction constraint: <<value, constraints fired>>
RepConstraint(recommendation, exercise_data) ==
    LET original_reps == Get(exercise_data.planned_reps, Whole(10))
        suggested_reps == recommendation.suggested_value
    IN  IF IsList(original_reps) /\ IsList(suggested_reps)
        THEN LET safe_reps == ZipMax(suggested_reps.l, original_reps.l)
             IN  IF safe_reps # suggested_reps.l
                 THEN <<List(safe_reps), <<"min_rep_constraint">>>>
                 ELSE <<suggested_reps, <<>>>>
        ELSE IF IsNumber(original_reps) /\ IsNumber(suggested_reps)
        THEN IF Less(suggested_reps, MinReps(original_reps.n))
             THEN <<Num(MinReps(original_reps.n)), <<"min_rep_constraint">>>>
             ELSE <<suggested_reps, <<>>>>
        ELSE <<suggested_reps, <<>>>>

\* the weight increase constraint raises TypeError on an unorderable operand
WeightRaises(recommendation, exercise_data) ==
    LET original_weight == Get(exercise_data.planned_weight, Whole(0))
    IN  \/ ~IsNumber(original_weight)
        \/ original_weight.n > 0 /\ ~IsNumber(recommendation.suggested_value)

WeightConstraint(recommendation, exercise_data) ==
    LET original_weight == Get(exercise_data.planned_weight, Whole(0))
        suggested_weight == recommendation.suggested_value
    IN  IF original_weight.n > 0 /\ Greater(suggested_weight, MaxWeight(original_weight.n))
        THEN <<Num(MaxWeight(original_weight.n)), <<"max_weight_constraint">>>>
        ELSE <<suggested_weight, <<>>>>

\* the rest time constraint
RestConstraint(recommendation) ==
    IF Less(recommendation.suggested_value, MinRest)
    THEN <<Num(MinRest), <<"min_rest_constraint">>>>
    ELSE <<recommendation.suggested_value, <<>>>>

\* _apply_safety_constraints
apply_safety_constraints(recommendation, exercise_data) ==
    IF recommendation.exc # "" THEN recommendation
    ELSE IF recommendation.type = "weight_increase" /\ WeightRaises(recommendation, exercise_data)
    THEN Raised("TypeError")
    ELSE IF recommendation.type = "rest_reduction" /\ ~IsNumber(recommendation.suggested_value)
    THEN Raised("TypeError")
    ELSE LET clamp == IF recommendation.type = "rep_reduction"
                      THEN RepConstraint(recommendation, exercise_data)
                      ELSE IF recommendation.type = "weight_increase"
                      THEN WeightConstraint(recommendation, exercise_data)
                      ELSE IF recommendation.type = "rest_reduction"
                      THEN RestConstraint(recommendation)
                      ELSE <<recommendation.suggested_value, <<>>>>
             constraints_applied == clamp[2]
         IN  IF constraints_applied # <<>>
             THEN [recommendation EXCEPT
                       !.suggested_value = clamp[1],
                       !.reasoning = @ \o R_safety(constraints_applied),
                       !.risk_assessment = Str("Very Low")]
             ELSE recommendation

\* the dict handed to _apply_safety_constraints as its caller finds it after
\* the call: recommendation.copy() is shallow, so a reasoning that is a list
\* is the same object in both dicts and += extends it in place
incoming_after_safety(recommendation, exercise_data) ==
    IF recommendation.exc = "" /\ recommendation.reasoning_is_list
    THEN [recommendation EXCEPT
            !.reasoning = apply_safety_constraints(recommendation, exercise_data).reasoning]
    ELSE recommendation

\* ------------------------------------------------------------------------
\* ConfidenceScorer
\* ------------------------------------------------------------------------
\* np.clip(base_confidence, 0.0, 1.0): numpy's minimum and maximum hand a nan on
ClipConfidence(base_confidence) ==
    IF base_confidence.k = "nan" THEN NaN ELSE Num(Clip(base_confidence.n, 0, Q))

\* _calculate_confidence for a float confidence_score; every product and sum
\* of a nan is nan
calculate_confidence(profile, context_analysis, recommendation) ==
    LET score == Get(recommendation.confidence_score, Num(500))
        c0 == score.n
        c1 == IF profile.total_interactions > 20
              THEN c0 + Min(200, (profile.total_interactions * Q) \div 100)
              ELSE c0
        c2 == (c1 * (500 + (profile.acceptance_rate * 500) \div Q)) \div Q
        context_clarity ==
            ( context_analysis.energy_alignment * 300
              + (Q - context_analysis.time_pressure) * 200
              + context_analysis.motivation_factor * 300
              + (Q - context_analysis.crowding_impact) * 200 ) \div Q
        c3 == (c2 * (700 + (context_clarity * 300) \div Q)) \div Q
        c4 == IF recommendation.type \in {"maintain_program", "rest_increase", "form_focus"}
              THEN (c3 * 1100) \div Q
              ELSE c3
    IN  ClipConfidence(IF score.k = "nan" THEN NaN ELSE Num(c4))

\* ------------------------------------------------------------------------
\* generate_personalized_recommendation, from the suggestion on
\* ------------------------------------------------------------------------
AIRecommendation(type, original_value, suggested_value, confidence, reasoning, risk_assessment) ==
    [ exc |-> "",
      type |-> type,
      original_value |-> original_value,
      suggested_value |-> suggested_value,
      confidence |-> confidence,
      reasoning |-> reasoning,
      risk_assessment |-> risk_assessment ]

RaisedRecommendation(e) ==
    [ exc |-> e,
      type |-> "",
      original_value |-> Absent,
      suggested_value |-> Absent,
      confidence |-> Absent,
      reasoning |-> <<>>,
      risk_assessment |-> Absent ]

\* lines 221-244: personalization, safety, confidence, the returned object
finish_recommendation(ai_suggestion, profile, context_analysis, exercise_data) ==
    LET personalized_recommendation ==
            personalize_recommendation(ai_suggestion, profile, context_analysis)
        safe_recommendation ==
            apply_safety_constraints(personalized_recommendation, exercise_data)
    IN  IF safe_recommendation.exc # ""
        THEN RaisedRecommendation(safe_recommendation.exc)
        ELSE IF ~IsNumber(Get(safe_recommendation.confidence_score, Num(500)))
        THEN RaisedRecommendation("TypeError")
        ELSE AIRecommendation(
                safe_recommendation.type,
                GetOrNone(exercise_data.planned_value),
                safe_recommendation.suggested_value,
                calculate_confidence(profile, context_analysis, safe_recommendation),
                safe_recommendation.reasoning,
                Get(safe_recommendation.risk_assessment, Str("Low risk")))

\* ------------------------------------------------------------------------
\* FeedbackLearner
\* ------------------------------------------------------------------------
\* feedback dicts: optional entries are <<>> (absent) or <<x>>
Feedback(action, rating, response_time, modification_reason) ==
    [ action |-> action,
      rating |-> rating,
      response_time |-> response_time,
      modification_reason |-> modification_reason ]

\* seq[-k:]
LastN(seq, k) == IF Len(seq) <= k THEN seq ELSE SubSeq(seq, Len(seq) - k + 1, Len(seq))

\* variant: an accepted suggestion pulls the acceptance rate toward 0.0
NewRate_AcceptedAsZero(profile, feedback) ==
    IF feedback.action \in {"accepted", "rejected"}
    THEN exponential_moving_average(profile.acceptance_rate, 0, profile.learning_rate)
    ELSE exponential_moving_average(profile.modification_frequency, Q, profile.learning_rate)

\* the right-hand side of the rate assignment of lines 154-169: the new
\* acceptance_rate (accepted, rejected) or modification_frequency (modified)
NewRate(profile, feedback) ==
    IF feedback.action = "accepted"
    THEN exponential_moving_average(profile.acceptance_rate, Q, profile.learning_rate)
    ELSE IF feedback.action = "rejected"
    THEN exponential_moving_average(profile.acceptance_rate, 0, profile.learning_rate)
    ELSE exponential_moving_average(profile.modification_frequency, Q, profile.learning_rate)

\* the assignments of lines 154-169, given the value computed for the rate
StoreRate(profile, feedback, rate) ==
    IF feedback.action = "accepted"
    THEN [profile EXCEPT !.acceptance_rate = rate]
    ELSE IF feedback.action = "rejected"
    THEN [profile EXCEPT
            !.acceptance_rate = rate,
            !.common_rejection_reasons =
                IF IsNone(feedback.modification_reason) THEN @
                ELSE LastN(Append(@, Val(feedback.modification_reason)), 20)]
    ELSE IF feedback.action = "modified"
    THEN [profile EXCEPT !.modification_frequency = rate]
    ELSE profile

\* variant: the confidence is adjusted without np.clip, min or max
UpdateConfidence_Unclipped(profile, feedback) ==
    LET rated ==
            IF IsNone(feedback.rating) THEN profile.workout_confidence
            ELSE profile.workout_confidence
                    + ((((Val(feedback.rating) - 3) * Q) \div 5) * profile.learning_rate) \div Q
        timed ==
            IF IsNone(feedback.response_time) THEN rated
            ELSE IF Val(feedback.response_time) < 5 THEN rated + 10
            ELSE IF Val(feedback.response_time) > 30 THEN rated - 10
            ELSE rated
    IN  [profile EXCEPT !.workout_confidence = timed]

\* lines 171-186: rating and response time
UpdateConfidence(profile, feedback) ==
    LET rated ==
            IF IsNone(feedback.rating) THEN profile.workout_confidence
            ELSE Clip(profile.workout_confidence
                        + ((((Val(feedback.rating) - 3) * Q) \div 5) * profile.learning_rate) \div Q,
                      0, Q)
        timed ==
            IF IsNone(feedback.response_time) THEN rated
            ELSE IF Val(feedback.response_time) < 5 THEN Min(Q, rated + 10)
            ELSE IF Val(feedback.response_time) > 30 THEN Max(0, rated - 10)
            ELSE rated
    IN  [profile EXCEPT !.workout_confidence = timed]

\* variant: the interaction is not counted
update_user_preferences_Uncounted(profile, feedback) ==
    UpdateConfidence(StoreRate(profile, feedback, NewRate(profile, feedback)), feedback)

\* update_user_preferences run without interruption, on the user's profile
update_user_preferences(profile, feedback) ==
    LET counted == [profile EXCEPT !.total_interactions = @ + 1]
    IN  UpdateConfidence(StoreRate(counted, feedback, NewRate(counted, feedback)), feedback)

CountAction(interactions, action) ==
    Cardinality({i \in 1..Len(interactions) : interactions[i].action = action})

\* the modification reasons of the rejected interactions, in order
RECURSIVE RejectionReasons(_)
RejectionReasons(interactions) ==
    IF interactions = <<>> THEN <<>>
    ELSE (IF Head(interactions).action = "rejected"
             /\ ~IsNone(Head(interactions).modification_reason)
          THEN <<Val(Head(interactions).modification_reason)>>
          ELSE <<>>) \o RejectionReasons(Tail(interactions))

\* variant: the learning rate is scaled without min or max
analyze_interaction_patterns_Unbounded(profile, interactions) ==
    LET recent_interactions == LastN(interactions, 20)
        recent_acceptance_rate ==
            (CountAction(recent_interactions, "accepted") * Q) \div Len(recent_interactions)
    IN  IF Abs(recent_acceptance_rate - profile.acceptance_rate) > 200
        THEN [profile EXCEPT !.learning_rate = MulFrac(@, 12, 10)]
        ELSE [profile EXCEPT !.learning_rate = MulFrac(@, 95, 100)]

\* _analyze_interaction_patterns, on the user's profile
analyze_interaction_patterns(profile, interactions) ==
    LET recent_interactions == LastN(interactions, 20)
        recent_acceptance_rate ==
            (CountAction(recent_interactions, "accepted") * Q) \div Len(recent_interactions)
        adapted ==
            IF Abs(recent_acceptance_rate - profile.acceptance_rate) > 200
            THEN [profile EXCEPT !.learning_rate = Min(300, MulFrac(@, 12, 10))]
            ELSE [profile EXCEPT !.learning_rate = Max(50, MulFrac(@, 95, 100))]
    IN  IF CountAction(recent_interactions, "rejected") > 3
        THEN [adapted EXCEPT !.common_rejection_reasons =
                LastN(@ \o RejectionReasons(recent_interactions), 10)]
        ELSE adapted

\* capacity of a user's interaction history (deque(maxlen=100))
HistoryMax == 100

\* ------------------------------------------------------------------------
\* State
\* ------------------------------------------------------------------------
VARIABLES
    model_loaded,       \* self.model is not None
    user_profiles,      \* self.user_profiles: user id -> UserPreferenceProfile
    persisted,          \* the file at user_profiles_path
    interaction_history,\* self.interaction_history: user id -> recent feedback
    gen,                \* the generate_personalized_recommendation call: its
                        \* arguments, its position, its locals and what it returned
    fb,                 \* the process_user_feedback calls, one per thread: position,
                        \* arguments, the value held between a read and its write
    store0,             \* the profiles as loaded at construction (history variable)
    nutrition           \* the nutrition engine (EnhancedNutritionAI) and the last
                        \* call made to it

vars == <<model_loaded, user_profiles, persisted, interaction_history, gen, fb, store0,
          nutrition>>

fbVars == <<persisted, interaction_history, fb, store0>>

\* ------------------------------------------------------------------------
\* Bounds and input sets
\* ------------------------------------------------------------------------
MaxPlannedReps == 5

Users == {"u1", "u2"}

\* the user of the recommendation requests: first seen when the store is
\* empty, known when the store was loaded
Requesters == {"u1"}

EventTypes == {"struggle_set", "complete_set", "workout_tweak"}

\* profiles found in the persisted store at construction
P_FormFocus ==
    [DefaultProfile EXCEPT !.form_focus = 900, !.volume_tolerance = 300,
                           !.acceptance_rate = 200, !.total_interactions = 5]

P_Veteran ==
    [DefaultProfile EXCEPT !.progression_rate = 800, !.acceptance_rate = Q,
                           !.total_interactions = 50]

P_Careful ==
    [DefaultProfile EXCEPT !.form_focus = 900, !.progression_rate = 800,
                           !.total_interactions = 25]

LoadedProfiles == {P_FormFocus, P_Veteran, P_Careful}

EmptyStore == [u \in {} |-> DefaultProfile]

LoadedStores == {EmptyStore} \cup {("u1" :> p) : p \in LoadedProfiles}

\* the file at user_profiles_path: absent, a pickle of the profiles, a file
\* that cannot be opened, or a pickle cut off after the profiles in data
StoreFile(kind, data) == [kind |-> kind, data |-> data]

StoreFiles ==
    {StoreFile("pickle", st) : st \in LoadedStores \ {EmptyStore}}
        \cup {StoreFile("missing", EmptyStore),
              StoreFile("unreadable", "u1" :> P_Veteran),
              StoreFile("truncated", "u1" :> P_Careful)}

\* variant: what a truncated file still holds is kept
load_user_profiles_Partial(file) ==
    IF file.kind \in {"pickle", "truncated"} THEN file.data ELSE EmptyStore

\* _load_user_profiles: self.user_profiles after the call
load_user_profiles(file) ==
    IF file.kind = "pickle" THEN file.data ELSE EmptyStore

WorkoutContext(user_energy, user_motivation, available_time, equipment_availability, gym_crowding) ==
    [ user_energy |-> user_energy,
      user_motivation |-> user_motivation,
      available_time |-> available_time,
      equipment_availability |-> equipment_availability,
      gym_crowding |-> gym_crowding ]

CtxNeutral == WorkoutContext(<<>>, <<>>, <<>>, <<>>, <<>>)

CtxGood == WorkoutContext(Some(8), Some(7), Some(60), Some(<<TRUE, TRUE, FALSE>>), Some("medium"))

CtxTired == WorkoutContext(Some(2), Some(3), <<>>, <<>>, Some("low"))

CtxRushed == WorkoutContext(Some(7), Some(8), Some(30), <<>>, Some("high"))

CtxHyped == WorkoutContext(Some(7), Some(20), <<>>, <<>>, <<>>)

Contexts == {CtxNeutral, CtxGood, CtxTired, CtxRushed, CtxHyped}

\* the caller's exercise data: planned values are finite numbers, lists of
\* them, or absent
ExerciseBase ==
    [ planned_reps |-> Whole(10),
      planned_weight |-> Whole(100),
      planned_sets |-> Whole(3),
      planned_value |-> Absent ]

PlannedReps ==
    {Whole(r) : r \in 1..MaxPlannedReps}
        \cup {Absent, List(<<10 * VScale, 3 * VScale>>)}

ExerciseData ==
    {[ExerciseBase EXCEPT !.planned_reps = r] : r \in PlannedReps}
        \cup {[ExerciseBase EXCEPT !.planned_weight = w] : w \in {Absent, Whole(0)}}
        \cup {[ExerciseBase EXCEPT !.planned_sets = n] : n \in {Absent, Whole(1)}}
        \cup {[ExerciseBase EXCEPT !.planned_value = Whole(10)]}

\* what the model's JSON object can hold (json.loads reads NaN as a float)
ModelTypes ==
    {Str(t) : t \in {"rep_reduction", "weight_increase", "rest_reduction",
                     "volume_increase", "maintain_program", "cardio_blast"}}
        \cup {Absent}

ModelValues ==
    {Whole(v) : v \in {2, 6, 20, 105, 200}}
        \cup {Absent, NoneV, NaN, Str("heavy"), List(<<6 * VScale, 2 * VScale>>)}

ModelObjBase ==
    [ type |-> Str("rep_reduction"),
      suggested_value |-> Whole(6),
      reasoning |-> Str("model reasoning"),
      risk_assessment |-> Str("Low"),
      confidence_score |-> Num(850) ]

ModelObjects ==
    {[ModelObjBase EXCEPT !.type = t, !.suggested_value = v] :
        t \in ModelTypes, v \in ModelValues}
        \cup {[ModelObjBase EXCEPT !.type = t, !.confidence_score = c] :
                t \in {Str("rep_reduction"), Str("maintain_program")},
                c \in {Absent, Num(5000), Num(-200), NaN, Str("high")}}
        \cup {[ModelObjBase EXCEPT !.reasoning = Absent],
              [ModelObjBase EXCEPT !.type = Str("rest_reduction"),
                                   !.suggested_value = Whole(20),
                                   !.reasoning = List(<<>>)],
              [ModelObjBase EXCEPT !.risk_assessment = Absent]}

\* response texts that are not exactly one object
OtherTexts ==
    { <<"p">>,                                  \* prose, no JSON
      <<"p", "{", "j", "}", "p">>,              \* an object inside prose
      <<"{", "j", "}", "p", "{", "p", "}">>,    \* an object, then prose with braces
      <<"{", "}">>,                             \* an object without members
      <<"p", "{", "j">>,                        \* an object cut off
      <<"}", "p", "{">> }                       \* a closing brace before the opening one

Outcome(kind, text, obj) == [kind |-> kind, text |-> text, obj |-> obj]

NoOutcome == Outcome("none", <<>>, ModelObjBase)

ModelTexts ==
    {Outcome("text", <<"{", "j", "}">>, o) : o \in ModelObjects}
        \cup {Outcome("text", t, ModelObjBase) : t \in OtherTexts}

\* ------------------------------------------------------------------------
\* Nutrition engine: src/app/enhanced_nutrition_ai.py
\* ------------------------------------------------------------------------
\* NutritionSafetyMonitor.safety_thresholds (per kg of body weight; protein in
\* tenths of a gram)
min_calories_per_kg == 15

max_calories_per_kg == 50

min_protein_per_kg == 8

max_protein_per_kg == 30

\* UserHealthProfile: the flags are safety_flags.get(flag, False)
UserHealthProfile(medical_conditions, heartConditionFlag, kidneyIssueFlag, diabetesFlag) ==
    [ medical_conditions |-> medical_conditions,
      heartConditionFlag |-> heartConditionFlag,
      kidneyIssueFlag |-> kidneyIssueFlag,
      diabetesFlag |-> diabetesFlag ]

has_heart_condition(health_profile) == health_profile.heartConditionFlag

has_kidney_issues(health_profile) == health_profile.kidneyIssueFlag

has_diabetes(health_profile) == health_profile.diabetesFlag

\* get_protein_limit, in tenths of g/kg; 0 stands for None
get_protein_limit(health_profile) ==
    IF has_kidney_issues(health_profile) THEN 12
    ELSE IF has_diabetes(health_profile) THEN 20
    ELSE 0

\* get_sodium_limit, mg per day
get_sodium_limit(health_profile) ==
    IF has_heart_condition(health_profile)
       \/ "hypertension" \in health_profile.medical_conditions
    THEN 1500
    ELSE 2300

\* a / b < c and a / b > c for b # 0
QuotientLess(a, b, c) == IF b > 0 THEN a < c * b ELSE a > c * b

QuotientGreater(a, b, c) == IF b > 0 THEN a > c * b ELSE a < c * b

Alert(type, severity, action_required) ==
    [type |-> type, severity |-> severity, action_required |-> action_required]

\* the calorie checks of check_daily_intake
CalorieAlerts(user_intake, body_weight_kg) ==
    IF QuotientLess(user_intake.calories, body_weight_kg, min_calories_per_kg)
    THEN <<Alert("excessive_deficit", "critical", TRUE)>>
    ELSE IF QuotientGreater(user_intake.calories, body_weight_kg, max_calories_per_kg)
    THEN <<Alert("excessive_surplus", "warning", FALSE)>>
    ELSE <<>>

\* the protein checks
ProteinAlerts(user_intake, health_profile, body_weight_kg) ==
    LET max_protein == IF get_protein_limit(health_profile) # 0
                       THEN get_protein_limit(health_profile)
                       ELSE max_protein_per_kg
    IN  IF QuotientLess(user_intake.protein * 10, body_weight_kg, min_protein_per_kg)
        THEN <<Alert("protein_deficiency", "warning", TRUE)>>
        ELSE IF QuotientGreater(user_intake.protein * 10, body_weight_kg, max_protein)
        THEN <<Alert("excessive_protein",
                     IF has_kidney_issues(health_profile) THEN "critical" ELSE "warning",
                     has_kidney_issues(health_profile))>>
        ELSE <<>>

\* the sodium checks
SodiumAlerts(user_intake, health_profile) ==
    IF user_intake.sodium > get_sodium_limit(health_profile)
    THEN <<Alert("excessive_sodium",
                 IF has_heart_condition(health_profile) THEN "critical" ELSE "warning",
                 has_heart_condition(health_profile))>>
    ELSE <<>>

\* NutritionSafetyMonitor.check_daily_intake: the alerts, or the exception
\* of the division by body_weight_kg
check_daily_intake(user_intake, health_profile, body_weight_kg) ==
    IF body_weight_kg = 0
    THEN [exc |-> "ZeroDivisionError", alerts |-> <<>>]
    ELSE [exc |-> "",
          alerts |-> CalorieAlerts(user_intake, body_weight_kg)
                        \o ProteinAlerts(user_intake, health_profile, body_weight_kg)
                        \o SodiumAlerts(user_intake, health_profile)]

\* RecoveryMetrics: the fields the nutrition engine reads (Optional ones as
\* options; hydration_status in percent, sleep_duration in hours)
RecoveryMetrics(recovery_score, sleep_quality, sleep_duration, hydration_status) ==
    [ recovery_score |-> recovery_score,
      sleep_quality |-> sleep_quality,
      sleep_duration |-> sleep_duration,
      hydration_status |-> hydration_status ]

\* Python's `x and x < bound` for an Optional number
TruthyBelow(x, bound) == ~IsNone(x) /\ Val(x) # 0 /\ Val(x) < bound

needs_recovery_boost(recovery_metrics) == recovery_metrics.recovery_score < 60

needs_protein_boost(recovery_metrics) ==
    recovery_metrics.recovery_score < 50 \/ TruthyBelow(recovery_metrics.sleep_quality, 6)

needs_hydration_boost(recovery_metrics) ==
    TruthyBelow(recovery_metrics.hydration_status, 70) \/ recovery_metrics.recovery_score < 40

\* the boosts of get_recovery_adjusted_goals, in percent
CalorieBoostPercent(recovery_metrics) == Min(10, 60 - recovery_metrics.recovery_score)

ProteinBoostPercent(recovery_metrics) == Min(20, 50 - recovery_metrics.recovery_score)

CarbBoostPercent(recovery_metrics) == (7 - Val(recovery_metrics.sleep_duration)) * 5

\* adjusted_goals[key] *= (1 + percent / 100) when wanted; KeyError when the
\* goals hold no such key
ScaleGoal(step, wanted, key, percent, note) ==
    IF step.exc # "" \/ ~wanted THEN step
    ELSE IF key \notin DOMAIN step.adjusted_goals
    THEN [step EXCEPT !.exc = "KeyError"]
    ELSE [step EXCEPT
            !.adjusted_goals[key] = (@ * (100 + percent)) \div 100,
            !.adjustments_made = Append(@, note)]

\* adjusted_goals['hydration'] = base_goals.get('hydration', 2.5) + 0.5, in
\* tenths of a litre
BoostHydration(step, wanted, base_goals) ==
    IF step.exc # "" \/ ~wanted THEN step
    ELSE [step EXCEPT
            !.adjusted_goals =
                [k \in DOMAIN @ \cup {"hydration"} |->
                    IF k = "hydration"
                    THEN (IF "hydration" \in DOMAIN base_goals
                          THEN base_goals["hydration"] ELSE 25) + 5
                    ELSE @[k]],
            !.adjustments_made = Append(@, "hydration")]

\* EnhancedNutritionAI.get_recovery_adjusted_goals
get_recovery_adjusted_goals(base_goals, recovery_metrics) ==
    LET copied == [exc |-> "", adjusted_goals |-> base_goals, adjustments_made |-> <<>>]
        calories == ScaleGoal(copied, needs_recovery_boost(recovery_metrics),
                              "calories", CalorieBoostPercent(recovery_metrics), "calories")
        protein == ScaleGoal(calories, needs_protein_boost(recovery_metrics),
                             "protein", ProteinBoostPercent(recovery_metrics), "protein")
        hydration == BoostHydration(protein, needs_hydration_boost(recovery_metrics),
                                    base_goals)
    IN  ScaleGoal(hydration, TruthyBelow(recovery_metrics.sleep_duration, 7),
                  "carbs", CarbBoostPercent(recovery_metrics), "carbs")

\* a NutritionRecommendation: its action and target_value
NutritionRecommendation(action, target_value) ==
    [action |-> action, target_value |-> target_value]

\* current_intake.get(nutrient, 0)
IntakeOf(current_intake, nutrient) ==
    IF nutrient \in DOMAIN current_intake THEN current_intake[nutrient] ELSE 0

\* target - current for a nutrient of the goals; 0 for a nutrient not in them
Deficit(current_intake, goals, nutrient) ==
    IF nutrient \in DOMAIN goals
    THEN goals[nutrient] - IntakeOf(current_intake, nutrient)
    ELSE 0

\* _generate_protein_recommendation
generate_protein_recommendation(deficit, health_profile) ==
    IF get_protein_limit(health_profile) # 0
       /\ deficit * 10 > get_protein_limit(health_profile) * 70
    THEN <<>>
    ELSE <<NutritionRecommendation("increase_protein", deficit)>>

\* _generate_recovery_recommendation (stress_level is not supplied)
generate_recovery_recommendation(recovery_metrics) ==
    IF recovery_metrics.recovery_score >= 60 THEN <<>>
    ELSE IF TruthyBelow(recovery_metrics.sleep_quality, 6)
    THEN <<NutritionRecommendation("improve_sleep_nutrition", 0)>>
    ELSE <<NutritionRecommendation("general_recovery", 0)>>

\* EnhancedNutritionAI.generate_nutrition_recommendations
generate_nutrition_recommendations(health_profile, recovery_metrics, current_intake, goals) ==
    (IF Deficit(current_intake, goals, "protein") > 10
     THEN generate_protein_recommendation(Deficit(current_intake, goals, "protein"),
                                          health_profile)
     ELSE <<>>)
    \o (IF Deficit(current_intake, goals, "hydration") > 0
        THEN <<NutritionRecommendation("increase_hydration",
                                       Deficit(current_intake, goals, "hydration"))>>
        ELSE <<>>)
    \o (IF recovery_metrics.recovery_score < 60
        THEN generate_recovery_recommendation(recovery_metrics)
        ELSE <<>>)
    \o (IF has_diabetes(health_profile) /\ IntakeOf(current_intake, "sugar") > 50
        THEN <<NutritionRecommendation("reduce_sugar", 30)>>
        ELSE <<>>)

\* NutritionRecommendation.is_safe_for_user, for a profile without medications:
\* the target in grams is compared with the limit in g/kg
is_safe_for_user(rec, health_profile) ==
    ~ ( rec.action = "increase_protein" /\ rec.target_value # 0
        /\ get_protein_limit(health_profile) # 0
        /\ rec.target_value * 10 > get_protein_limit(health_profile) )

RECURSIVE SafeRecommendations(_, _)
SafeRecommendations(recommendations, health_profile) ==
    IF recommendations = <<>> THEN <<>>
    ELSE (IF is_safe_for_user(Head(recommendations), health_profile)
          THEN <<Head(recommendations)>> ELSE <<>>)
         \o SafeRecommendations(Tail(recommendations), health_profile)

\* the response of the except branch
FailedResponse(error) ==
    [ success |-> FALSE, error |-> error, recommendations |-> <<>>,
      adjusted_goals |-> [nutrient \in {} |-> 0], safety_alerts |-> <<>> ]

\* get_nutrition_recommendations: the API function around the engine
get_nutrition_recommendations(health_profile, body_weight_kg, recovery_metrics, current_intake, goals) ==
    LET adjusted_goals_data == get_recovery_adjusted_goals(goals, recovery_metrics)
        recommendations == generate_nutrition_recommendations(
                               health_profile, recovery_metrics, current_intake,
                               adjusted_goals_data.adjusted_goals)
        checked == check_daily_intake(current_intake, health_profile, body_weight_kg)
    IN  IF adjusted_goals_data.exc # "" THEN FailedResponse(adjusted_goals_data.exc)
        ELSE IF checked.exc # "" THEN FailedResponse(checked.exc)
        ELSE [ success |-> TRUE, error |-> "",
               recommendations |-> SafeRecommendations(recommendations, health_profile),
               adjusted_goals |-> adjusted_goals_data.adjusted_goals,
               safety_alerts |-> checked.alerts ]

\* user_profiles_cache[user_id]['nutrition_preferences'] as first created
DefaultNutritionPreferences ==
    [ protein_acceptance_rate |-> 500,
      modification_frequency |-> 0,
      total_recommendations |-> 0,
      total_accepted |-> 0 ]

\* EnhancedNutritionAI._update_user_preferences: the cache after the call
nutrition_update_user_preferences(cache, user_id, feedback_data) ==
    LET created == IF user_id \in DOMAIN cache THEN cache
                   ELSE cache @@ (user_id :> DefaultNutritionPreferences)
        profile == created[user_id]
        counted == [profile EXCEPT
                        !.total_recommendations = @ + 1,
                        !.total_accepted = IF feedback_data.accepted THEN @ + 1 ELSE @]
        modified == IF feedback_data.modified
                    THEN [counted EXCEPT !.modification_frequency = (@ * 9) \div 10 + 100]
                    ELSE counted
        rated == IF feedback_data.protein
                 THEN [modified EXCEPT !.protein_acceptance_rate =
                        (@ * 900 + (IF feedback_data.accepted THEN Q ELSE 0) * 100) \div Q]
                 ELSE modified
    IN  [created EXCEPT ![user_id] = rated]

\* get_nutrition_insights: what it reads of the cache, with .get defaults
get_nutrition_insights(cache, user_id) ==
    LET total_recommendations ==
            IF user_id \in DOMAIN cache THEN cache[user_id].total_recommendations ELSE 0
        total_accepted ==
            IF user_id \in DOMAIN cache THEN cache[user_id].total_accepted ELSE 0
    IN  [ recommendation_acceptance_rate |->
              (total_accepted * Q) \div Max(IF user_id \in DOMAIN cache
                                            THEN total_recommendations ELSE 1, 1),
          total_generated |-> total_recommendations,
          total_accepted |-> total_accepted ]

EmptyCache == [u \in {} |-> DefaultNutritionPreferences]

\* user_health_profiles.pkl at construction
CacheFiles ==
    { StoreFile("missing", EmptyCache),
      StoreFile("unreadable", "u1" :> DefaultNutritionPreferences),
      StoreFile("pickle", "u1" :> [DefaultNutritionPreferences EXCEPT
                                        !.total_recommendations = 1,
                                        !.total_accepted = 1]) }

\* EnhancedNutritionAI.load_user_profiles: user_profiles_cache after the call
nutrition_load_user_profiles(file) ==
    IF file.kind = "pickle" THEN file.data ELSE EmptyCache

\* no call to the nutrition engine yet
NoCall == [op |-> "none"]

\* the nutrition engine after __init__, given the file it found
NutritionEngine(file) ==
    [ user_profiles_cache |-> nutrition_load_user_profiles(file),
      file |-> file,
      call |-> NoCall ]

\* ------------------------------------------------------------------------
\* Init: the engine after __init__
\* ------------------------------------------------------------------------
GenIdle ==
    [ pc |-> "idle",
      user_id |-> "u1",
      exercise_data |-> ExerciseBase,
      context |-> CtxNeutral,
      event_type |-> "workout_tweak",
      outcome |-> NoOutcome,
      ai_suggestion |-> Raised("unset"),
      rec |-> RaisedRecommendation("unset") ]

Threads == {1, 2}

F_None == Feedback("ignored", <<>>, <<>>, <<>>)

FbIdle == [pc |-> "idle", user_id |-> "u1", feedback |-> F_None, tmp |-> 0, calls |-> 0]

\* _load_user_profiles has read the file; nothing else has run
Loaded ==
    /\ persisted \in StoreFiles
    /\ user_profiles = load_user_profiles(persisted)
    /\ store0 = user_profiles
    /\ interaction_history = [u \in Users |-> <<>>]
    /\ gen = GenIdle
    /\ fb = [t \in Threads |-> FbIdle]

\* the nutrition engine found no file and has not been called
NutritionIdle == nutrition = NutritionEngine(StoreFile("missing", EmptyCache))

Init ==
    /\ model_loaded \in BOOLEAN
    /\ Loaded
    /\ NutritionIdle

\* ------------------------------------------------------------------------
\* generate_personalized_recommendation
\* ------------------------------------------------------------------------
GenFree == gen.pc = "idle"

\* the profile and context analysis of the call in gen (lines 206-209)
GenProfile == user_profiles[gen.user_id]

GenAnalysis == analyze_context(gen.context, GenProfile)

\* the call returns: everything from the suggestion on (lines 221-244)
Return(g, profiles, outcome, ai_suggestion) ==
    [g EXCEPT
        !.pc = "done",
        !.outcome = outcome,
        !.ai_suggestion = ai_suggestion,
        !.rec = IF ai_suggestion.exc # ""
                THEN RaisedRecommendation(ai_suggestion.exc)
                ELSE finish_recommendation(ai_suggestion, profiles[g.user_id],
                        analyze_context(g.context, profiles[g.user_id]),
                        g.exercise_data)]

Call(user_id, exercise_data, context, event_type) ==
    [GenIdle EXCEPT !.pc = "in_model", !.user_id = user_id, !.exercise_data = exercise_data,
                    !.context = context, !.event_type = event_type]

\* the whole call when no model is loaded (RuleBased source)
GenerateRuleBased(user_id, exercise_data, context, event_type) ==
    /\ GenFree
    /\ ~model_loaded
    /\ LET profiles == get_user_profile(user_profiles, user_id)
           call == Call(user_id, exercise_data, context, event_type)
       IN  /\ user_profiles' = profiles
           /\ gen' = Return(call, profiles, NoOutcome,
                        generate_fallback_recommendation(
                            exercise_data, context, profiles[user_id], event_type))
    /\ UNCHANGED <<nutrition, model_loaded, fbVars>>

\* the call up to self.model.generate (lines 206-316)
GenerateBegin(user_id, exercise_data, context, event_type) ==
    /\ GenFree
    /\ model_loaded
    /\ user_profiles' = get_user_profile(user_profiles, user_id)
    /\ gen' = Call(user_id, exercise_data, context, event_type)
    /\ UNCHANGED <<nutrition, model_loaded, fbVars>>

\* the model returns text; the call runs to its end
ModelReturns(outcome) ==
    /\ gen.pc = "in_model"
    /\ gen' = Return(gen, user_profiles, outcome,
                generate_ai_suggestion(outcome, gen.exercise_data, gen.context,
                                       GenProfile, gen.event_type))
    /\ UNCHANGED <<nutrition, model_loaded, user_profiles, fbVars>>

\* the tokenizer or the model raises; the call runs to its end
ModelRaises ==
    /\ gen.pc = "in_model"
    /\ LET outcome == Outcome("raise", <<>>, ModelObjBase)
       IN  gen' = Return(gen, user_profiles, outcome,
                    generate_ai_suggestion(outcome, gen.exercise_data, gen.context,
                                           GenProfile, gen.event_type))
    /\ UNCHANGED <<nutrition, model_loaded, user_profiles, fbVars>>

\* self.model.generate never returns: nothing bounds the call
ModelHangs ==
    /\ gen.pc = "in_model"
    /\ gen' = [gen EXCEPT !.pc = "blocked", !.outcome = Outcome("hang", <<>>, ModelObjBase)]
    /\ UNCHANGED <<nutrition, model_loaded, user_profiles, fbVars>>

\* the caller takes what the call returned or raised
Collect ==
    /\ gen.pc = "done"
    /\ gen' = GenIdle
    /\ UNCHANGED <<nutrition, model_loaded, user_profiles, fbVars>>

Next ==
    \/ \E u \in Requesters, e \in ExerciseData, c \in Contexts, ev \in EventTypes :
            GenerateRuleBased(u, e, c, ev)
    \/ \E u \in Requesters, e \in ExerciseData, c \in Contexts, ev \in EventTypes :
            GenerateBegin(u, e, c, ev)
    \/ \E o \in ModelTexts : ModelReturns(o)
    \/ ModelRaises
    \/ ModelHangs
    \/ Collect

Spec == Init /\ [][Next]_vars

\* ------------------------------------------------------------------------
\* process_user_feedback, one call per thread at a time.  The engine takes no
\* lock, so a thread can be preempted between the read and the write of an
\* augmented or computed assignment to a profile field; each step below is one
\* such read or write.
\* ------------------------------------------------------------------------
MaxFbCalls == 1

F_Accept == Feedback("accepted", Some(5), Some(2), <<>>)

F_Reject == Feedback("rejected", Some(1), Some(40), Some("too hard"))

F_Modify == Feedback("modified", <<>>, Some(10), <<>>)

Feedbacks == {F_Accept, F_Reject, F_Modify, F_None}

FbProfile(t) == user_profiles[fb[t].user_id]

SetProfile(t, profile) == [user_profiles EXCEPT ![fb[t].user_id] = profile]

Goto(t, pc) == [fb EXCEPT ![t].pc = pc]

\* process_user_feedback -> update_user_preferences, lines 143-149
FbCall(t, user_id, feedback) ==
    /\ fb[t].pc = "idle"
    /\ user_profiles' = get_user_profile(user_profiles, user_id)
    /\ fb' = [fb EXCEPT ![t] = [@ EXCEPT !.pc = "count", !.user_id = user_id,
                                         !.feedback = feedback]]
    /\ UNCHANGED <<nutrition, model_loaded, persisted, interaction_history, gen, store0>>

\* line 152, the read of profile.total_interactions += 1
FbLoadTotal(t) ==
    /\ fb[t].pc = "count"
    /\ fb' = [fb EXCEPT ![t] = [@ EXCEPT !.pc = "count_store",
                                         !.tmp = FbProfile(t).total_interactions]]
    /\ UNCHANGED <<nutrition, model_loaded, user_profiles, persisted, interaction_history, gen, store0>>

\* line 152, the write
FbStoreTotal(t) ==
    /\ fb[t].pc = "count_store"
    /\ user_profiles' = SetProfile(t, [FbProfile(t) EXCEPT !.total_interactions = fb[t].tmp + 1])
    /\ fb' = Goto(t, "rate")
    /\ UNCHANGED <<nutrition, model_loaded, persisted, interaction_history, gen, store0>>

\* lines 154-169, the arguments of _exponential_moving_average are read
FbLoadRate(t) ==
    /\ fb[t].pc = "rate"
    /\ fb' = IF fb[t].feedback.action \in {"accepted", "rejected", "modified"}
             THEN [fb EXCEPT ![t] = [@ EXCEPT !.pc = "rate_store",
                                              !.tmp = NewRate(FbProfile(t), fb[t].feedback)]]
             ELSE Goto(t, "confidence")
    /\ UNCHANGED <<nutrition, model_loaded, user_profiles, persisted, interaction_history, gen, store0>>

\* lines 154-169, the result is assigned
FbStoreRate(t) ==
    /\ fb[t].pc = "rate_store"
    /\ user_profiles' = SetProfile(t, StoreRate(FbProfile(t), fb[t].feedback, fb[t].tmp))
    /\ fb' = Goto(t, "confidence")
    /\ UNCHANGED <<nutrition, model_loaded, persisted, interaction_history, gen, store0>>

\* lines 171-188
FbConfidence(t) ==
    /\ fb[t].pc = "confidence"
    /\ user_profiles' = SetProfile(t, UpdateConfidence(FbProfile(t), fb[t].feedback))
    /\ fb' = Goto(t, "save")
    /\ UNCHANGED <<nutrition, model_loaded, persisted, interaction_history, gen, store0>>

\* line 189, _save_user_profiles
FbSave(t) ==
    /\ fb[t].pc = "save"
    /\ persisted' = StoreFile("pickle", user_profiles)
    /\ fb' = Goto(t, "record")
    /\ UNCHANGED <<nutrition, model_loaded, user_profiles, interaction_history, gen, store0>>

\* process_user_feedback, lines 648-660
FbRecord(t) ==
    /\ fb[t].pc = "record"
    /\ LET history == LastN(Append(interaction_history[fb[t].user_id], fb[t].feedback),
                            HistoryMax)
       IN  /\ interaction_history' = [interaction_history EXCEPT ![fb[t].user_id] = history]
           /\ user_profiles' =
                IF Len(history) >= 10
                THEN SetProfile(t, analyze_interaction_patterns(FbProfile(t), history))
                ELSE user_profiles
    /\ fb' = [fb EXCEPT ![t] = [@ EXCEPT !.pc = "idle", !.calls = @ + 1]]
    /\ UNCHANGED <<nutrition, model_loaded, persisted, gen, store0>>

FbStep(t) ==
    \/ FbLoadTotal(t)
    \/ FbStoreTotal(t)
    \/ FbLoadRate(t)
    \/ FbStoreRate(t)
    \/ FbConfidence(t)
    \/ FbSave(t)
    \/ FbRecord(t)

InitFeedback ==
    /\ model_loaded = FALSE
    /\ Loaded
    /\ NutritionIdle

NextFeedback ==
    \/ \E t \in Threads, u \in Users, f \in Feedbacks :
            fb[t].calls < MaxFbCalls /\ FbCall(t, u, f)
    \/ \E t \in Threads : FbStep(t)

\* two threads, each handling feedback requests
SpecFeedback == InitFeedback /\ [][NextFeedback]_vars

\* ------------------------------------------------------------------------
\* One caller at a time: feedback, insights and rule-based recommendations.
\* The user gives any feedback for the first MaxMixed events and then keeps
\* giving the feedback given last, up to MaxEvents events.
\* ------------------------------------------------------------------------
MaxMixed == 2

MaxEvents == 24

\* process_user_feedback run without interruption on the user's profile and
\* history: the profile and history after it, and the profile as saved by
\* update_user_preferences (before the pattern analysis)
process_user_feedback(profile, history, feedback) ==
    LET updated == update_user_preferences(profile, feedback)
        recorded == LastN(Append(history, feedback), HistoryMax)
    IN  [ saved |-> updated,
          history |-> recorded,
          profile |-> IF Len(recorded) >= 10
                      THEN analyze_interaction_patterns(updated, recorded)
                      ELSE updated ]

\* the feedback the user may give next
UserGives(user_id, feedback) ==
    LET history == interaction_history[user_id]
    IN  /\ Len(history) < MaxEvents
        /\ IF Len(history) < MaxMixed THEN TRUE ELSE feedback = history[Len(history)]

ProcessFeedback(user_id, feedback) ==
    /\ UserGives(user_id, feedback)
    /\ LET profiles == get_user_profile(user_profiles, user_id)
           r == process_user_feedback(profiles[user_id], interaction_history[user_id], feedback)
       IN  /\ user_profiles' = [profiles EXCEPT ![user_id] = r.profile]
           /\ persisted' = StoreFile("pickle", [profiles EXCEPT ![user_id] = r.saved])
           /\ interaction_history' = [interaction_history EXCEPT ![user_id] = r.history]
    /\ UNCHANGED <<nutrition, model_loaded, gen, fb, store0>>

\* get_user_insights: the profile is fetched with get_user_profile; a user id
\* missing from interaction_history reads as an empty history
GetUserInsights(user_id) ==
    /\ user_profiles' = get_user_profile(user_profiles, user_id)
    /\ UNCHANGED <<nutrition, model_loaded, persisted, interaction_history, gen, fb, store0>>

\* a rule-based recommendation for a planned set
Recommend(user_id) ==
    GenerateRuleBased(user_id, ExerciseBase, CtxNeutral, "workout_tweak")

InitLearning ==
    /\ model_loaded = FALSE
    /\ Loaded
    /\ NutritionIdle

NextLearning ==
    \/ \E f \in Feedbacks : ProcessFeedback("u1", f)
    \/ \E u \in Users : GetUserInsights(u)
    \/ \E u \in Users : Recommend(u)
    \/ Collect

SpecLearning == InitLearning /\ [][NextLearning]_vars

\* ------------------------------------------------------------------------
\* The nutrition engine, one caller at a time
\* ------------------------------------------------------------------------
MaxRecommendations == 2

\* a day's intake: calories, protein (g), sodium (mg; 0 when not recorded)
IntakeBase == [calories |-> 2000, protein |-> 100, sodium |-> 2000]

Intakes ==
    {[IntakeBase EXCEPT !.sodium = mg] : mg \in {0, 1500, 1501, 2300, 2301, 5000}}
        \cup {[IntakeBase EXCEPT !.calories = c] : c \in {900, 4000}}
        \cup {[IntakeBase EXCEPT !.protein = g] : g \in {40, 250}}

HealthProfiles ==
    { UserHealthProfile(m, h, k, FALSE) :
        m \in {{}, {"hypertension"}}, h \in BOOLEAN, k \in BOOLEAN }

BodyWeights == {0, 70}

\* feedback_data: accepted, modified_value is not None, 'protein' in recommendation_id
NutritionFeedbacks ==
    { [accepted |-> TRUE, modified |-> FALSE, protein |-> TRUE],
      [accepted |-> FALSE, modified |-> TRUE, protein |-> TRUE],
      [accepted |-> TRUE, modified |-> FALSE, protein |-> FALSE] }

\* no call to the nutrition engine is under way
NutritionFree == nutrition.call.op = "none"

\* safety_monitor.check_daily_intake
CheckDailyIntake(user_intake, health_profile, body_weight_kg) ==
    /\ NutritionFree
    /\ nutrition' = [nutrition EXCEPT !.call =
            [ op |-> "check_daily_intake",
              user_intake |-> user_intake,
              health_profile |-> health_profile,
              body_weight_kg |-> body_weight_kg,
              result |-> check_daily_intake(user_intake, health_profile, body_weight_kg) ]]
    /\ UNCHANGED <<model_loaded, user_profiles, persisted, interaction_history, gen, fb, store0>>

\* process_nutrition_feedback: _update_user_preferences, then save_user_profiles
ProcessNutritionFeedback(user_id, feedback_data) ==
    /\ NutritionFree
    /\ user_id \in DOMAIN nutrition.user_profiles_cache
            => nutrition.user_profiles_cache[user_id].total_recommendations < MaxRecommendations
    /\ LET cache == nutrition_update_user_preferences(
                        nutrition.user_profiles_cache, user_id, feedback_data)
       IN  nutrition' = [ user_profiles_cache |-> cache,
                          file |-> StoreFile("pickle", cache),
                          call |-> [op |-> "process_nutrition_feedback", user_id |-> user_id] ]
    /\ UNCHANGED <<model_loaded, user_profiles, persisted, interaction_history, gen, fb, store0>>

\* get_nutrition_insights
GetNutritionInsights(user_id) ==
    /\ NutritionFree
    /\ nutrition' = [nutrition EXCEPT !.call =
            [ op |-> "get_nutrition_insights",
              user_id |-> user_id,
              result |-> get_nutrition_insights(nutrition.user_profiles_cache, user_id) ]]
    /\ UNCHANGED <<model_loaded, user_profiles, persisted, interaction_history, gen, fb, store0>>

\* recovery data: rested, default, tired, rested after a poor night, short
\* of sleep and dehydrated
RecoveryInputs ==
    { RecoveryMetrics(80, <<>>, <<>>, <<>>),
      RecoveryMetrics(50, <<>>, <<>>, <<>>),
      RecoveryMetrics(30, Some(4), <<>>, <<>>),
      RecoveryMetrics(80, Some(5), <<>>, <<>>),
      RecoveryMetrics(70, Some(8), Some(5), Some(60)) }

\* goals: complete, protein only, none (hydration in tenths of a litre)
GoalsFull == [calories |-> 2500, protein |-> 200, carbs |-> 300, hydration |-> 30]

NoGoals == [nutrient \in {} |-> 0]

GoalInputs == {GoalsFull, [protein |-> 200], NoGoals}

\* the intakes and health data of the requests
RequestIntakes ==
    {IntakeBase, [IntakeBase EXCEPT !.sodium = 5000], [IntakeBase EXCEPT !.protein = 40]}

RequestProfiles == {h \in HealthProfiles : h.medical_conditions = {}}

\* get_nutrition_recommendations
GetNutritionRecommendations(health_profile, body_weight_kg, recovery_metrics, current_intake, goals) ==
    /\ NutritionFree
    /\ nutrition' = [nutrition EXCEPT !.call =
            [ op |-> "get_nutrition_recommendations",
              user_intake |-> current_intake,
              health_profile |-> health_profile,
              body_weight_kg |-> body_weight_kg,
              recovery_metrics |-> recovery_metrics,
              goals |-> goals,
              result |-> get_nutrition_recommendations(
                             health_profile, body_weight_kg, recovery_metrics,
                             current_intake, goals) ]]
    /\ UNCHANGED <<model_loaded, user_profiles, persisted, interaction_history, gen, fb, store0>>

\* the caller takes what the call returned or raised
NutritionReturn ==
    /\ ~NutritionFree
    /\ nutrition' = [nutrition EXCEPT !.call = NoCall]
    /\ UNCHANGED <<model_loaded, user_profiles, persisted, interaction_history, gen, fb, store0>>

InitNutrition ==
    /\ model_loaded = FALSE
    /\ Loaded
    /\ persisted = StoreFile("missing", EmptyStore)
    /\ nutrition \in {NutritionEngine(file) : file \in CacheFiles}

NextNutrition ==
    \/ \E i \in Intakes, h \in HealthProfiles, w \in BodyWeights : CheckDailyIntake(i, h, w)
    \/ \E u \in Users, f \in NutritionFeedbacks : ProcessNutritionFeedback(u, f)
    \/ \E u \in Users : GetNutritionInsights(u)
    \/ \E h \in RequestProfiles, w \in BodyWeights, r \in RecoveryInputs,
          i \in RequestIntakes, g \in GoalInputs :
            GetNutritionRecommendations(h, w, r, i, g)
    \/ NutritionReturn

SpecNutrition == InitNutrition /\ [][NextNutrition]_vars

\* ------------------------------------------------------------------------
\* Properties of the recommendation call
\* ------------------------------------------------------------------------
\* the call in gen returned a recommendation
Returned == gen.pc = "done" /\ gen.rec.exc = ""

\* v is a number that is not nan
IsFinite(v) == v.k = "num"

PlannedRepsOf(exercise_data) == Get(exercise_data.planned_reps, Whole(10))

PlannedWeightOf(exercise_data) == Get(exercise_data.planned_weight, Whole(0))

\* the least whole number >= n
CeilWhole(n) == ((n + VScale - 1) \div VScale) * VScale

\* ceil(planned_reps x 0.8)
RepFloor(planned_reps) == CeilWhole(MulFrac(planned_reps, 8, 10))

\* planned_weight x 1.10
WeightCeiling(planned_weight) == MulFrac(planned_weight, 110, 100)

RestFloor == 30 * VScale

\* every element of reps is at least ceil(0.8 x) of the planned element
RepsAtLeastFloor(reps, planned) ==
    /\ Len(reps) = Len(planned)
    /\ \A i \in 1..Len(reps) : reps[i] >= RepFloor(planned[i])

\* the reasoning contains the word "fallback"
HasFallbackWord(reasoning) == \E i \in 1..Len(reasoning) : reasoning[i] \in {R_parse}

\* the suggestion of the call came from a fallback: no model, the model call
\* raised, or its text did not parse
UsedFallback ==
    \/ gen.outcome.kind \in {"none", "raise"}
    \/ gen.outcome.kind = "text" /\ ParseFails(gen.outcome.text)

\* the object the text parsed to lacks a required field
MissingRequired ==
    /\ gen.outcome.kind = "text"
    /\ ~ParseFails(gen.outcome.text)
    /\ LET o == JsonObject(JsonStr(gen.outcome.text), gen.outcome.obj)
       IN  \E v \in {o.type, o.suggested_value, o.reasoning} : v.k = "absent"

\* C1: safety precedence.  A raw suggestion whose value violates a hard limit
\* comes out of personalization and safety within that limit, whichever
\* personalization rule fired.  Stated here with the limits the code itself
\* clamps to (the floor max(1, int(0.8 x planned_reps)), planned_weight > 0),
\* which asks less than the specification does.
C1_SafetyPrecedence ==
    Returned =>
        LET raw == gen.ai_suggestion
            out == gen.rec.suggested_value
            reps == PlannedRepsOf(gen.exercise_data)
            weight == PlannedWeightOf(gen.exercise_data)
        IN  /\ ( /\ raw.type = "rep_reduction"
                 /\ IsFinite(raw.suggested_value) /\ IsFinite(reps)
                 /\ raw.suggested_value.n < MinReps(reps.n) )
                    => IsFinite(out) /\ out.n >= MinReps(reps.n)
            /\ ( /\ raw.type = "weight_increase"
                 /\ IsFinite(raw.suggested_value) /\ IsFinite(weight) /\ weight.n > 0
                 /\ raw.suggested_value.n > WeightCeiling(weight.n) )
                    => IsFinite(out) /\ out.n <= WeightCeiling(weight.n)
            /\ ( /\ raw.type = "rest_reduction"
                 /\ IsFinite(raw.suggested_value)
                 /\ raw.suggested_value.n < RestFloor )
                    => IsFinite(out) /\ out.n >= RestFloor

\* C2: every returned rep_reduction has suggested reps >= ceil(planned_reps x 0.8),
\* element-wise when the reps are a sequence.
C2_RepFloor ==
    (Returned /\ gen.rec.type = "rep_reduction") =>
        LET out == gen.rec.suggested_value
            reps == PlannedRepsOf(gen.exercise_data)
        IN  /\ IsFinite(reps) => IsFinite(out) /\ out.n >= RepFloor(reps.n)
            /\ IsList(reps) => IsList(out) /\ RepsAtLeastFloor(out.l, reps.l)

\* C3: every returned weight_increase has suggested weight <= planned_weight x 1.10,
\* a planned weight of 0 or none included.
C3_WeightCeiling ==
    (Returned /\ gen.rec.type = "weight_increase" /\ IsFinite(gen.rec.suggested_value)) =>
        gen.rec.suggested_value.n <= WeightCeiling(PlannedWeightOf(gen.exercise_data).n)

\* C4: every returned rest_reduction has suggested rest >= 30 seconds.
C4_RestFloor ==
    (Returned /\ gen.rec.type = "rest_reduction") =>
        /\ gen.rec.suggested_value.k = "num"
        /\ gen.rec.suggested_value.n >= RestFloor

\* C5: the confidence of every returned recommendation is in [0, 1].
C5_ConfidenceInUnit ==
    Returned =>
        /\ gen.rec.confidence.k = "num"
        /\ gen.rec.confidence.n >= 0
        /\ gen.rec.confidence.n <= Q

\* C6: generate_personalized_recommendation never raises.
C6_NeverRaises == gen.pc = "done" => gen.rec.exc = ""

\* C7: a recommendation by fallback has confidence below 0.7, risk_assessment
\* "Very Low" and a reasoning containing the word "fallback".
C7_FallbackShape ==
    (Returned /\ UsedFallback) =>
        /\ gen.rec.confidence.k = "num" /\ gen.rec.confidence.n < 700
        /\ gen.rec.risk_assessment = Str("Very Low")
        /\ HasFallbackWord(gen.rec.reasoning)

\* C8: when the model's text does not parse, or parses to an object lacking a
\* required field, the suggestion used is the one the rule-based source gives
\* for the same profile, context, exercise data and event type.
C8_FallsBackToRuleBased ==
    (gen.pc = "done" /\ gen.outcome.kind = "text"
        /\ (ParseFails(gen.outcome.text) \/ MissingRequired)) =>
        gen.ai_suggestion = generate_fallback_recommendation(
                                gen.exercise_data, gen.context, GenProfile, gen.event_type)

\* C10: a recommendation request always returns: a call that is under way can
\* take a step (the model returns or raises, or a timeout cuts the call off).
C10_CallCanProceed == gen.pc \in {"in_model", "blocked"} => ENABLED Next

\* ------------------------------------------------------------------------
\* Properties of concurrent feedback
\* ------------------------------------------------------------------------
\* both threads have finished one call each, for the same user
BothDone ==
    /\ \A t \in Threads : fb[t].pc = "idle" /\ fb[t].calls = 1
    /\ fb[1].user_id = fb[2].user_id

\* the profile of user_id after feedback a, then feedback b, one call after
\* the other, from the store as loaded
Serial(user_id, a, b) ==
    update_user_preferences(
        update_user_preferences(get_user_profile(store0, user_id)[user_id], a), b)

\* C9: two concurrent feedback calls for one user leave the profile that
\* running them one after the other leaves: total_interactions has grown by
\* 2 and the rates reflect both updates.
C9_NoLostUpdate ==
    BothDone =>
        user_profiles[fb[1].user_id]
            \in { Serial(fb[1].user_id, fb[1].feedback, fb[2].feedback),
                  Serial(fb[1].user_id, fb[2].feedback, fb[1].feedback) }

\* ------------------------------------------------------------------------
\* Properties of preference learning (one caller at a time)
\* ------------------------------------------------------------------------
\* the user whose feedback is processed, and their events so far
Learner == "u1"

Events == interaction_history[Learner]

\* the learner's profile was created in this run, with the defaults
FromDefault == Learner \notin DOMAIN store0

\* v is a rate or confidence in [0, 1]
InUnit(v) == v >= 0 /\ v <= Q

\* C11: after any sequence of feedback events the rates and confidences of
\* every profile (acceptance_rate, modification_frequency, skip_rate, workout,
\* exercise and intensity confidence) are within [0, 1].
C11_RatesInUnit ==
    \A u \in DOMAIN user_profiles :
        /\ InUnit(user_profiles[u].acceptance_rate)
        /\ InUnit(user_profiles[u].modification_frequency)
        /\ InUnit(user_profiles[u].skip_rate)
        /\ InUnit(user_profiles[u].workout_confidence)
        /\ InUnit(user_profiles[u].exercise_confidence)
        /\ InUnit(user_profiles[u].intensity_confidence)

\* eleven or more top-rated quick acceptances from the default profile: the
\* workout confidence would have passed 1.0 and is 1.0
C11_Witness ==
    /\ FromDefault
    /\ Len(Events) >= 11
    /\ \A i \in 1..Len(Events) : Events[i] = F_Accept
    /\ user_profiles[Learner].workout_confidence = Q
    /\ user_profiles[Learner].acceptance_rate > 800

\* the share of accepted events among the last 20, as the pattern analysis
\* computes it
RecentAcceptanceRate(events) ==
    (CountAction(LastN(events, 20), "accepted") * Q) \div Len(LastN(events, 20))

\* a feedback event of the learner is processed in this step
FeedbackStep == Len(interaction_history'[Learner]) = Len(Events) + 1

\* C12: starting from a default profile the learning rate stays within
\* [0.05, 0.3]; a pattern analysis that finds recent and stored acceptance
\* rate more than 0.2 apart does not lower it, any other does not raise it,
\* and nothing but a pattern analysis changes it.
C12_LearningRateBounded ==
    /\ [](FromDefault /\ Learner \in DOMAIN user_profiles
            => user_profiles[Learner].learning_rate >= 50
               /\ user_profiles[Learner].learning_rate <= 300)
    /\ [][(FromDefault /\ Learner \in DOMAIN user_profiles) =>
            LET old == user_profiles[Learner].learning_rate
                new == user_profiles'[Learner].learning_rate
            IN  IF FeedbackStep /\ Len(interaction_history'[Learner]) >= 10
                THEN IF Abs(RecentAcceptanceRate(interaction_history'[Learner])
                            - user_profiles'[Learner].acceptance_rate) > 200
                     THEN new >= old
                     ELSE new <= old
                ELSE new = old]_vars

\* sixteen ignored suggestions from the default profile: seven analyses in a
\* row found the rates apart and the learning rate has reached 0.3
C12_Witness ==
    /\ FromDefault
    /\ Len(Events) >= 16
    /\ \A i \in 1..Len(Events) : Events[i] = F_None
    /\ user_profiles[Learner].learning_rate = 300

\* C13: total_interactions never decreases: every processed feedback event
\* adds exactly one to the user's count and no other operation (insights,
\* recommendation, pattern analysis, save) changes any count.
C13_TotalInteractionsAppendOnly ==
    [][ /\ \A u \in DOMAIN user_profiles :
            /\ u \in DOMAIN user_profiles'
            /\ user_profiles'[u].total_interactions =
                    user_profiles[u].total_interactions
                        + (IF u = Learner /\ FeedbackStep THEN 1 ELSE 0)
        /\ \A u \in DOMAIN user_profiles' \ DOMAIN user_profiles :
            user_profiles'[u].total_interactions =
                (IF u = Learner /\ FeedbackStep THEN 1 ELSE 0) ]_vars

\* a loaded profile with 5 interactions after twelve events, insights for
\* another user and a recommendation in between
C13_Witness ==
    /\ Learner \in DOMAIN store0
    /\ store0[Learner].total_interactions = 5
    /\ Len(Events) = 12
    /\ user_profiles[Learner].total_interactions = 17
    /\ "u2" \in DOMAIN user_profiles
    /\ gen.pc = "done"

\* the number of consecutive accepted events of the monotonic-learning scenario
StreakLen == 20

\* the learner's profile after the first k events, from the profile as loaded
\* or created
RECURSIVE Replayed(_)
Replayed(k) ==
    IF k = 0
    THEN get_user_profile(store0, Learner)[Learner]
    ELSE process_user_feedback(Replayed(k - 1), SubSeq(Events, 1, k - 1), Events[k]).profile

RateAfter(k) == Replayed(k).acceptance_rate

\* the last StreakLen events were all accepted
AcceptedStreak ==
    /\ Len(Events) >= StreakLen
    /\ \A i \in (Len(Events) - StreakLen + 1)..Len(Events) : Events[i].action = "accepted"

\* the number of events before the streak
StreakStart == Len(Events) - StreakLen

\* an accepted event neither lowers the rate nor takes it above 1.0
AcceptedStep ==
    FeedbackStep /\ interaction_history'[Learner][Len(Events) + 1].action = "accepted"
        => LET before == get_user_profile(user_profiles, Learner)[Learner].acceptance_rate
               after == user_profiles'[Learner].acceptance_rate
           IN  before <= after /\ after <= Q

\* C14 as stated: after 20 consecutive accepted events the acceptance rate is
\* strictly greater than before them, never having decreased or exceeded 1.0.
\* It fails for a profile whose rate is already 1.0.
C14_StrictlyGreater ==
    /\ [](AcceptedStreak
            => user_profiles[Learner].acceptance_rate > RateAfter(StreakStart))
    /\ [][AcceptedStep]_vars

\* C14, amended: along 20 consecutive accepted events the acceptance rate
\* never decreases and never exceeds 1.0; after them it is strictly greater
\* than before them when that value was at most 0.9, and not smaller in any
\* case.
C14_MonotonicLearning ==
    /\ [](AcceptedStreak
            => /\ RateAfter(StreakStart) <= 900
                    => user_profiles[Learner].acceptance_rate > RateAfter(StreakStart)
               /\ user_profiles[Learner].acceptance_rate >= RateAfter(StreakStart))
    /\ [][AcceptedStep]_vars

\* a rejection, then 20 accepted events from the default profile, with the
\* learning rate changed by the analyses in between
C14_Witness ==
    /\ FromDefault
    /\ AcceptedStreak
    /\ StreakStart >= 1
    /\ Events[1].action = "rejected"
    /\ user_profiles[Learner].learning_rate # 100
    /\ user_profiles[Learner].acceptance_rate > RateAfter(StreakStart)

\* C15: the insights operation never mutates state: the stored profiles, every
\* field of every profile, every interaction history and the persisted store
\* are the same before and after get_user_insights, also for a user id never
\* seen before.
C15_InsightsReadOnly ==
    [][(\E u \in Users : GetUserInsights(u))
        => UNCHANGED <<user_profiles, interaction_history, persisted>>]_vars

\* the profile get_user_profile hands back has the documented defaults
DocumentedDefaults(profile) ==
    /\ profile.acceptance_rate = Q \div 2
    /\ profile.learning_rate = Q \div 10
    /\ profile.total_interactions = 0
    /\ profile.common_rejection_reasons = <<>>

\* C16: get_user_profile never fails: for an unknown user id it stores a
\* profile with the documented defaults, for a known one it leaves the stored
\* profile as it is, and every other user's profile is untouched; a
\* recommendation for a first-seen user is not an error.
C16_GetUserProfileTotal ==
    /\ \A u \in Users :
            LET after == get_user_profile(user_profiles, u)
            IN  /\ DOMAIN after = DOMAIN user_profiles \cup {u}
                /\ \A v \in DOMAIN user_profiles : after[v] = user_profiles[v]
                /\ u \notin DOMAIN user_profiles => DocumentedDefaults(after[u])
    /\ gen.pc = "done" => gen.rec.exc = "" /\ gen.user_id \in DOMAIN user_profiles

\* a recommendation was served to a user the store did not hold, next to a
\* known user with feedback on record
C16_Witness ==
    /\ gen.pc = "done"
    /\ gen.user_id = "u2"
    /\ "u2" \notin DOMAIN store0
    /\ DocumentedDefaults(user_profiles["u2"])
    /\ Learner \in DOMAIN store0
    /\ user_profiles[Learner].total_interactions > store0[Learner].total_interactions

\* the store file could not be read or deserialized
Corrupt(file) == file.kind \in {"unreadable", "truncated"}

\* C17: when the persisted store cannot be read or deserialized, construction
\* succeeds with an empty profile map (nothing of the file is loaded), in the
\* workout engine and in the nutrition engine, and get and feedback calls work
\* on that map.
C17_CorruptStoreLoadsEmpty ==
    /\ Corrupt(persisted) =>
            /\ store0 = EmptyStore
            /\ \A u \in DOMAIN user_profiles : user_profiles[u] = DefaultProfile
            /\ ENABLED (\E f \in Feedbacks : ProcessFeedback(Learner, f))
            /\ ENABLED GetUserInsights(Learner)
    /\ \A file \in CacheFiles :
            Corrupt(file) => NutritionEngine(file).user_profiles_cache = EmptyCache

\* a truncated store file that held a profile for u1: the engine started
\* empty and has since created profiles for both users
C17_Witness ==
    /\ persisted.kind = "truncated"
    /\ Learner \in DOMAIN persisted.data
    /\ DOMAIN user_profiles = Users
    /\ gen.pc = "done"

\* C18: every factor of the context analysis (energy_alignment, time_pressure,
\* equipment_constraints, motivation_factor, crowding_impact) is in [0, 1],
\* also for out-of-scale raw signals.
C18_FactorsInUnit ==
    gen.pc # "idle" =>
        /\ InUnit(GenAnalysis.energy_alignment)
        /\ InUnit(GenAnalysis.time_pressure)
        /\ InUnit(GenAnalysis.equipment_constraints)
        /\ InUnit(GenAnalysis.motivation_factor)
        /\ InUnit(GenAnalysis.crowding_impact)

\* the excessive-sodium alerts among the alerts of a call
SodiumAlertsOf(alerts) ==
    {i \in 1..Len(alerts) : alerts[i].type = "excessive_sodium"}

\* C19: check_daily_intake emits an excessive-sodium alert whenever the sodium
\* intake exceeds the user's sodium limit, critical and with action_required
\* when the heart-condition flag is set.
C19_SodiumAlert ==
    LET call == nutrition.call
    IN  (call.op = "check_daily_intake"
            /\ call.user_intake.sodium > get_sodium_limit(call.health_profile))
        => /\ call.result.exc = ""
           /\ SodiumAlertsOf(call.result.alerts) # {}
           /\ has_heart_condition(call.health_profile)
                => \A i \in SodiumAlertsOf(call.result.alerts) :
                        /\ call.result.alerts[i].severity = "critical"
                        /\ call.result.alerts[i].action_required

\* the action tags the engine and its test name
EngineTypes ==
    {"maintain_program", "rep_reduction", "rep_increase", "weight_increase",
     "rest_reduction", "volume_reduction", "volume_increase", "set_increase",
     "intensity_increase", "increase_weight", "decrease_weight", "adjust_reps",
     "modify_rest", "change_exercise", "add_warmup", "suggest_form_focus"}

\* C20: the type of every returned recommendation is one of the engine's
\* action tags, whatever type the model's output carries or omits.
C20_TypeInClosedSet ==
    Returned => gen.rec.type \in EngineTypes

\* ------------------------------------------------------------------------
\* Properties of the nutrition request
\* ------------------------------------------------------------------------
\* a nutrition request has been answered
NutritionAnswered == nutrition.call.op = "get_nutrition_recommendations"

\* what the safety monitor yields for the request's intake, flags and weight
MonitorAlone ==
    check_daily_intake(nutrition.call.user_intake, nutrition.call.health_profile,
                       nutrition.call.body_weight_kg)

\* C21: the safety alerts of a nutrition response are exactly those
\* check_daily_intake yields for the request's intake, health flags and body
\* weight, whatever the recommendation step produced, a failure while
\* adjusting goals included.
C21_MonitorIndependent ==
    NutritionAnswered /\ MonitorAlone.exc = ""
        => /\ nutrition.call.result.success
           /\ nutrition.call.result.safety_alerts = MonitorAlone.alerts

\* C29: recovery adjustment never lowers a nutrition target: every entry of
\* adjusted_goals is at least the same entry of base_goals.
C29_AdjustmentNeverLowers ==
    NutritionAnswered =>
        LET adjusted == get_recovery_adjusted_goals(nutrition.call.goals,
                                                    nutrition.call.recovery_metrics)
        IN  adjusted.exc = "" =>
                \A nutrient \in DOMAIN nutrition.call.goals :
                    adjusted.adjusted_goals[nutrient] >= nutrition.call.goals[nutrient]

\* ------------------------------------------------------------------------
\* Properties of pattern analysis and persistence
\* ------------------------------------------------------------------------
\* the number of interactions between two pattern analyses
AnalysisInterval == 10

\* the learner's profile before a step, the defaults when not yet stored
LearnerBefore == get_user_profile(user_profiles, Learner)[Learner]

\* the feedback a FeedbackStep records
StepFeedback == interaction_history'[Learner][Len(Events) + 1]

\* C22: pattern re-analysis runs once every 10 interactions of a user: a
\* feedback event that does not reach a 10-interaction boundary leaves the
\* learning rate unchanged.
C22_AnalysisEveryTenth ==
    [][FeedbackStep /\ Len(interaction_history'[Learner]) % AnalysisInterval # 0
        => user_profiles'[Learner].learning_rate = LearnerBefore.learning_rate]_vars

\* C23: when process_user_feedback has returned, the persisted profile of the
\* user equals the in-memory profile in every field, the learning rate and
\* rejection reasons changed by pattern analysis in the same call included.
C23_PersistedEqualsMemory ==
    Len(Events) > 0 =>
        /\ persisted.kind = "pickle"
        /\ Learner \in DOMAIN persisted.data
        /\ persisted.data[Learner] = user_profiles[Learner]

\* the capacities the code truncates the rejection reasons to
ReasonCapacities == {10, 20}

\* C27: the rejection-reason history is a fixed-capacity ring: its length
\* never exceeds the capacity, a rejected feedback with a reason adds that
\* reason exactly once as the newest entry, dropping the oldest only when
\* full, and no other feedback changes it.
C27_RejectionRing ==
    /\ [](\A u \in DOMAIN user_profiles :
            \E capacity \in ReasonCapacities :
                Len(user_profiles[u].common_rejection_reasons) <= capacity)
    /\ [][FeedbackStep =>
            LET old == LearnerBefore.common_rejection_reasons
                new == user_profiles'[Learner].common_rejection_reasons
            IN  IF StepFeedback.action = "rejected"
                   /\ ~IsNone(StepFeedback.modification_reason)
                THEN \E capacity \in ReasonCapacities :
                        new = LastN(Append(old, Val(StepFeedback.modification_reason)),
                                    capacity)
                ELSE new = old]_vars

\* ------------------------------------------------------------------------
\* Properties of the personalization and safety stages
\* ------------------------------------------------------------------------
\* the suggestion a finished call personalized, and the result of that stage
Personalized == personalize_recommendation(gen.ai_suggestion, GenProfile, GenAnalysis)

\* the planned value a weight or rep increase starts from
OriginalOf(type, exercise_data) ==
    IF type = "weight_increase" THEN PlannedWeightOf(exercise_data)
    ELSE PlannedRepsOf(exercise_data)

\* the form-focus rule applies to a numeric suggestion over a numeric plan
FormFocusCase ==
    /\ gen.pc = "done"
    /\ gen.ai_suggestion.exc = ""
    /\ Personalized.exc = ""
    /\ GenProfile.form_focus > 800
    /\ gen.ai_suggestion.type \in {"weight_increase", "rep_increase"}
    /\ gen.ai_suggestion.suggested_value.k = "num"
    /\ OriginalOf(gen.ai_suggestion.type, gen.exercise_data).k = "num"

\* C24: with form focus above 0.8 and a weight or rep increase, the adjusted
\* value is original + 0.95 x (suggested - original), so an increase above the
\* original stays at or above the original; the reasoning is annotated unless
\* a later rule replaces the suggestion.
C24_FormFocusScalesDelta ==
    FormFocusCase =>
        LET original == OriginalOf(gen.ai_suggestion.type, gen.exercise_data).n
            suggested == gen.ai_suggestion.suggested_value.n
            adjusted == Personalized.suggested_value
        IN  /\ adjusted = Num(original + MulFrac(suggested - original, 95, 100))
            /\ suggested >= original => adjusted.n >= original
            /\ Personalized.type = gen.ai_suggestion.type
                    => \E i \in 1..Len(Personalized.reasoning) :
                            Personalized.reasoning[i] = R_form

\* the suggestion entering the safety stage of a finished call, and what the
\* stage makes of it
SafetyIn == Personalized

SafetyOut == apply_safety_constraints(SafetyIn, gen.exercise_data)

\* the safety stage ran and returned
SafetyRan == gen.pc = "done" /\ SafetyIn.exc = "" /\ SafetyOut.exc = ""

\* a number or a list of numbers
IsQuantity(v) == IsNumber(v) \/ IsList(v)

\* every suggested rep count is at or above the floor of its planned count
AboveRepLimit(value, planned) ==
    IF value.k = "num" /\ planned.k = "num"
    THEN value.n >= MinReps(planned.n)
    ELSE IF IsList(value) /\ planned.k = "num"
    THEN \A i \in 1..Len(value.l) : value.l[i] >= MinReps(planned.n)
    ELSE IF value.k = "num" /\ IsList(planned)
    THEN \A i \in 1..Len(planned.l) : value.n >= MinReps(planned.l[i])
    ELSE IF IsList(value) /\ IsList(planned)
    THEN /\ Len(value.l) = Len(planned.l)
         /\ \A i \in 1..Len(value.l) : value.l[i] >= MinReps(planned.l[i])
    ELSE FALSE

\* C25: the safety stage only tightens and is the identity inside the limits:
\* the output of a rep or rest reduction is at or above its floor, that of a
\* weight increase at or below its ceiling, a value already within its limit
\* is returned unchanged and a value outside is set exactly to the limit.
C25_OnlyTightens ==
    SafetyRan /\ IsQuantity(SafetyIn.suggested_value) =>
        LET in == SafetyIn.suggested_value
            out == SafetyOut.suggested_value
            reps == PlannedRepsOf(gen.exercise_data)
            weight == PlannedWeightOf(gen.exercise_data)
        IN  /\ SafetyIn.type = "rep_reduction" /\ IsQuantity(reps) =>
                /\ AboveRepLimit(out, reps)
                /\ in.k = "num" /\ out.k = "num" => out.n >= in.n
                /\ AboveRepLimit(in, reps) => out = in
                /\ in.k = "num" /\ reps.k = "num" /\ in.n < MinReps(reps.n)
                        => out = Num(MinReps(reps.n))
            /\ SafetyIn.type = "weight_increase" /\ weight.k = "num" /\ weight.n > 0 =>
                /\ out.k = "num" /\ out.n <= MaxWeight(weight.n)
                /\ in.k = "num" => out.n <= in.n
                /\ in.k = "num" /\ in.n <= MaxWeight(weight.n) => out = in
                /\ in.k = "num" /\ in.n > MaxWeight(weight.n)
                        => out = Num(MaxWeight(weight.n))
            /\ SafetyIn.type = "rest_reduction" =>
                /\ out.k = "num" /\ out.n >= MinRest
                /\ in.k = "num" => out.n >= in.n
                /\ in.k = "num" /\ in.n >= MinRest => out = in
                /\ in.k = "num" /\ in.n < MinRest => out = Num(MinRest)

\* the constraint of each type
ConstraintOf(type) ==
    IF type = "rep_reduction" THEN "min_rep_constraint"
    ELSE IF type = "weight_increase" THEN "max_weight_constraint"
    ELSE "min_rest_constraint"

\* C26: when the safety stage applies a clamp, the result's risk_assessment is
\* "Very Low" and its reasoning has a note appended naming the constraint; when
\* none fires, type, suggested_value, reasoning and risk_assessment equal the
\* incoming ones; in both cases the incoming suggestion is not modified.
C26_ClampFrame ==
    SafetyRan =>
        /\ SafetyOut.type = SafetyIn.type
        /\ IF SafetyOut.suggested_value # SafetyIn.suggested_value
           THEN /\ SafetyOut.risk_assessment = Str("Very Low")
                /\ SafetyOut.reasoning =
                        SafetyIn.reasoning \o R_safety(<<ConstraintOf(SafetyIn.type)>>)
           ELSE /\ SafetyOut.reasoning = SafetyIn.reasoning
                /\ SafetyOut.risk_assessment = SafetyIn.risk_assessment
        /\ incoming_after_safety(SafetyIn, gen.exercise_data) = SafetyIn

\* C30: a volume reduction never suggests fewer than one set: for planned_sets
\* of at least 1 the suggested value of a returned volume_reduction is at
\* least 1.
C30_AtLeastOneSet ==
    LET planned_sets == Get(gen.exercise_data.planned_sets, Whole(3))
    IN  ( /\ Returned
          /\ gen.rec.type = "volume_reduction"
          /\ planned_sets.k = "num" /\ planned_sets.n >= VScale )
            => /\ gen.rec.suggested_value.k = "num"
               /\ gen.rec.suggested_value.n >= VScale

\* src/app.py generate_ai_tweak, lines 173-182: the index just past the brace
\* that brings brace_count back to 0 when scanning from index i, -1 when the
\* scan ends without reaching 0
RECURSIVE BalancedEnd(_, _, _)
BalancedEnd(response_text, i, brace_count) ==
    IF i >= Len(response_text) THEN -1
    ELSE LET char == response_text[i + 1]
             count == IF char = "{" THEN brace_count + 1
                      ELSE IF char = "}" THEN brace_count - 1
                      ELSE brace_count
         IN  IF char = "}" /\ count = 0 THEN i + 1
             ELSE BalancedEnd(response_text, i + 1, count)

\* src/app.py generate_ai_tweak, lines 168-191: the first brace-balanced
\* object of the text, <<>> when a ValueError is raised
TweakJsonStr(response_text) ==
    LET json_start == Find(response_text, "{")
        balanced == BalancedEnd(response_text, json_start, 0)
        json_end == IF balanced = -1 THEN RFind(response_text, "}") + 1 ELSE balanced
    IN  IF json_start = -1 \/ json_end <= json_start
        THEN <<>>
        ELSE Slice(response_text, json_start, json_end)

\* the model answered with text that holds a complete object and the call
\* has parsed it
ParsedCompleteObject ==
    /\ gen.pc = "done"
    /\ gen.outcome.kind = "text"
    /\ JsonLoads(TweakJsonStr(gen.outcome.text))

\* C28: the parser of the model-backed source extracts the first complete
\* brace-balanced object of the model's text: for text holding a complete
\* object, also when prose with braces follows it, the extracted string is that
\* first object and the suggestion is the one parsed from it.
C28_FirstBalancedObject ==
    ParsedCompleteObject =>
        /\ JsonStr(gen.outcome.text) = TweakJsonStr(gen.outcome.text)
        /\ gen.ai_suggestion =
                FillRequired(JsonObject(TweakJsonStr(gen.outcome.text), gen.outcome.obj))

====
